---- MODULE Spec2Model ----
(***************************************************************************)
(* A model of the x86-64 assembly emitter of slang (src/backend/x86.rs):   *)
(* the addressing model (Label, Register, Location), the instruction set   *)
(* and its textual rendering, the process-wide label counter, and the      *)
(* Code builder with its environment and its finalisation ret().           *)
(*                                                                         *)
(* Rust enum values are records tagged with the variant's name; Strings    *)
(* are TLA+ strings, and the Display implementations build the very text   *)
(* the program builds.                                                     *)
(***************************************************************************)
EXTENDS Integers, Sequences, FiniteSets, TLC

(***************************************************************************)
(* Bounds of the model.                                                    *)
(***************************************************************************)
\* Most instructions a caller appends to one builder.
MaxAsm == 2
\* Most allocate calls on one builder.
MaxAlloc == 2
\* Most Label::new() calls in one run.
MaxLabels == 3
\* Most allocate calls on the builder of SpecEnv.
MaxEnv == 3
\* Most operators written to one formatter.
MaxOps == 2

\* The builders (values of type Code) and the threads of a run.
Builders == {"B1", "B2"}
Threads == {"T1", "T2"}

(***************************************************************************)
(* Label (x86.rs 6-32)                                                     *)
(***************************************************************************)
Generated(n) == [tag |-> "Generated", id |-> n]

Given(s) == [tag |-> "Given", name |-> s]

\* impl From<&'static str> for Label
Label_from(string) == Given(string)

\* impl Display for Label
DisplayLabel(l) ==
    IF l.tag = "Generated" THEN ".L" \o ToString(l.id) ELSE l.name

(***************************************************************************)
(* Register (x86.rs 34-129)                                                *)
(***************************************************************************)
\* The enumeration without its instruction-pointer entry.
Register_noRip ==
    {"Rax", "Rbx", "Rcx", "Rdx", "Rsp", "Rbp", "Rsi", "Rdi", "R8", "R9"}

\* enum Register
Register ==
    {"Rax", "Rbx", "Rcx", "Rdx", "Rsp", "Rbp", "Rsi", "Rdi", "R8", "R9", "Rip"}

\* impl Display for Register
DisplayRegister(r) ==
    "%" \o (CASE r = "Rax" -> "rax"
              [] r = "Rbx" -> "rbx"
              [] r = "Rcx" -> "rcx"
              [] r = "Rdx" -> "rdx"
              [] r = "Rsp" -> "rsp"
              [] r = "Rbp" -> "rbp"
              [] r = "Rsi" -> "rsi"
              [] r = "Rdi" -> "rdi"
              [] r = "R8" -> "r8"
              [] r = "R9" -> "r9"
              [] r = "Rip" -> "rip")

(***************************************************************************)
(* Location (x86.rs 49-109, 131-149)                                       *)
(***************************************************************************)
LocConstant(c) == [tag |-> "Constant", c |-> c]

LocRegister(reg) == [tag |-> "Register", reg |-> reg]

LocMemory(reg, off) == [tag |-> "Memory", reg |-> reg, off |-> off]

LocRelative(reg, l) == [tag |-> "Relative", reg |-> reg, label |-> l]

rax == LocRegister("Rax")

rbx == LocRegister("Rbx")

rcx == LocRegister("Rcx")

rdx == LocRegister("Rdx")

rsp == LocRegister("Rsp")

rbp == LocRegister("Rbp")

rsi == LocRegister("Rsi")

rdi == LocRegister("Rdi")

r8 == LocRegister("R8")

r9 == LocRegister("R9")

rip == LocRegister("Rip")

constant(c) == LocConstant(c)

\* The outcome of a call that panics: the call returns no value.
Panic(msg) == [tag |-> "Panic", msg |-> msg]

IsLocation(v) == v.tag \in {"Constant", "Register", "Memory", "Relative"}

deref_anyBase(loc, offset) ==
    CASE loc.tag = "Register" -> LocMemory(loc.reg, offset)
      [] loc.tag = "Memory" -> LocMemory(loc.reg, offset)
      [] loc.tag = "Relative" -> LocMemory(loc.reg, offset)
      [] OTHER -> Panic("Attempted to use constant as memory location")

deref(loc, offset) ==
    IF loc.tag = "Register"
    THEN LocMemory(loc.reg, offset)
    ELSE Panic("Attempted to use constant as memory location")

relative(loc, l) ==
    IF loc.tag = "Register"
    THEN LocRelative(loc.reg, l)
    ELSE Panic("Attempted to use constant as memory location")

\* impl Display for Location
DisplayLocation(loc) ==
    CASE loc.tag = "Constant" -> "$" \o ToString(loc.c)
      [] loc.tag = "Register" -> DisplayRegister(loc.reg)
      [] loc.tag = "Memory" ->
            ToString(loc.off) \o "(" \o DisplayRegister(loc.reg) \o ")"
      [] loc.tag = "Relative" ->
            DisplayLabel(loc.label) \o "(" \o DisplayRegister(loc.reg) \o ")"

(***************************************************************************)
(* Instruction (x86.rs 151-196)                                            *)
(***************************************************************************)
ILabel(l) == [op |-> "Label", label |-> l]

IPush(loc) == [op |-> "Push", loc |-> loc]

IPop(loc) == [op |-> "Pop", loc |-> loc]

INot(loc) == [op |-> "Not", loc |-> loc]

INeg(loc) == [op |-> "Neg", loc |-> loc]

IAdd(source, target) == [op |-> "Add", source |-> source, target |-> target]

ISub(source, target) == [op |-> "Sub", source |-> source, target |-> target]

IMul(source, target) == [op |-> "Mul", source |-> source, target |-> target]

IXor(source, target) == [op |-> "Xor", source |-> source, target |-> target]

ICmp(source, target) == [op |-> "Cmp", source |-> source, target |-> target]

IJmp(l) == [op |-> "Jmp", label |-> l]

IJe(l) == [op |-> "Je", label |-> l]

IJge(l) == [op |-> "Jge", label |-> l]

IJne(l) == [op |-> "Jne", label |-> l]

IMov(source, target) == [op |-> "Mov", source |-> source, target |-> target]

ILea(source, target) == [op |-> "Lea", source |-> source, target |-> target]

ICall(name) == [op |-> "Call", name |-> name]

IRet == [op |-> "Ret"]

UnaryOps == {"Push", "Pop", "Not", "Neg"}

BinaryOps == {"Add", "Sub", "Mul", "Xor", "Cmp", "Mov", "Lea"}

LabelOps == {"Label", "Jmp", "Je", "Jge", "Jne"}

\* The operands printed target first.
DisplayOperands_swapped(first, second) ==
    DisplayLocation(second) \o "," \o DisplayLocation(first)

\* The two operands of a binary instruction as "{},{}" prints them.
DisplayOperands(first, second) ==
    DisplayLocation(first) \o "," \o DisplayLocation(second)

\* impl Display for Instruction
DisplayInstruction(i) ==
    CASE i.op = "Label" -> "\n" \o DisplayLabel(i.label) \o ":"
      [] i.op = "Push" -> "\n\tpushq " \o DisplayLocation(i.loc)
      [] i.op = "Pop" -> "\n\tpopq " \o DisplayLocation(i.loc)
      [] i.op = "Not" -> "\n\tnotq " \o DisplayLocation(i.loc)
      [] i.op = "Neg" -> "\n\tnegq " \o DisplayLocation(i.loc)
      [] i.op = "Add" -> "\n\taddq " \o DisplayOperands(i.source, i.target)
      [] i.op = "Sub" -> "\n\tsubq " \o DisplayOperands(i.source, i.target)
      [] i.op = "Mul" -> "\n\timulq " \o DisplayOperands(i.source, i.target)
      [] i.op = "Xor" -> "\n\txorq " \o DisplayOperands(i.source, i.target)
      [] i.op = "Cmp" -> "\n\tcmpq " \o DisplayOperands(i.source, i.target)
      [] i.op = "Jmp" -> "\n\tjmp " \o DisplayLabel(i.label)
      [] i.op = "Je" -> "\n\tje " \o DisplayLabel(i.label)
      [] i.op = "Jge" -> "\n\tjge " \o DisplayLabel(i.label)
      [] i.op = "Jne" -> "\n\tjne " \o DisplayLabel(i.label)
      [] i.op = "Mov" -> "\n\tmovq " \o DisplayOperands(i.source, i.target)
      [] i.op = "Lea" -> "\n\tleaq " \o DisplayOperands(i.source, i.target)
      [] i.op = "Call" -> "\n\tcall " \o i.name
      [] i.op = "Ret" -> "\n\tret"

\* A Display for Code that ends every instruction's text with a newline.
RECURSIVE DisplayCode_spaced(_)
DisplayCode_spaced(instrs) ==
    IF instrs = <<>>
    THEN ""
    ELSE DisplayInstruction(Head(instrs)) \o "\n"
            \o DisplayCode_spaced(Tail(instrs))

\* impl Display for Code: the instructions' lines, in the vector's order.
RECURSIVE DisplayCode(_)
DisplayCode(instrs) ==
    IF instrs = <<>>
    THEN ""
    ELSE DisplayInstruction(Head(instrs)) \o DisplayCode(Tail(instrs))

(***************************************************************************)
(* State                                                                   *)
(***************************************************************************)
VARIABLES
    LABEL_COUNT,  \* static LABEL_COUNT: AtomicUsize
    ids,          \* per thread, the labels Label::new() returned to it
    label,        \* Code.label, per builder
    env,          \* Code.env: Vec<(String, Location)>, per builder
    allocated,    \* Code.allocated, per builder
    asm,          \* Code.asm: Vec<Instruction>, per builder
    phase,        \* "building", "finalized" (consumed by ret) or "panicked"
    text,         \* GeneratedCode.0 of the builder's ret(), "" before it
    result,       \* the last call that returns a value, and what it returned
    body,         \* history: the instructions the caller appended, in order
    nalloc        \* history: the number of allocate calls made

vars ==
    <<LABEL_COUNT, ids, label, env, allocated, asm, phase, text, result,
      body, nalloc>>

labelVars == <<LABEL_COUNT, ids>>

codeVars == <<label, env, allocated, asm, phase, text, body, nalloc>>

NoResult == [call |-> "none"]

(***************************************************************************)
(* Label::new (x86.rs 4, 12-16)                                            *)
(***************************************************************************)
RECURSIVE SumLen(_, _)
SumLen(f, S) ==
    IF S = {}
    THEN 0
    ELSE LET t == CHOOSE x \in S : TRUE
         IN Len(f[t]) + SumLen(f, S \ {t})

\* The number of Label::new() calls made so far, over all threads.
LabelCalls == SumLen(ids, DOMAIN ids)

\* A Label::new() that reads the counter and leaves it as it was.
Label_new_load(t) ==
    /\ LabelCalls < MaxLabels
    /\ ids' = [ids EXCEPT ![t] = Append(@, Generated(LABEL_COUNT))]
    /\ UNCHANGED <<LABEL_COUNT, result>>
    /\ UNCHANGED codeVars

\* Label::Generated(LABEL_COUNT.fetch_add(1, Ordering::SeqCst)), called by
\* thread t: fetch_add returns the old value and adds 1 in one atomic step.
Label_new(t) ==
    /\ LabelCalls < MaxLabels
    /\ ids' = [ids EXCEPT ![t] = Append(@, Generated(LABEL_COUNT))]
    /\ LABEL_COUNT' = LABEL_COUNT + 1
    /\ UNCHANGED result
    /\ UNCHANGED codeVars

(***************************************************************************)
(* deref and relative, called by a driver (x86.rs 97-109)                  *)
(***************************************************************************)
deref_call(loc, offset) ==
    /\ result' = [call |-> "deref", loc |-> loc, offset |-> offset,
                  val |-> deref(loc, offset)]
    /\ UNCHANGED labelVars
    /\ UNCHANGED codeVars

relative_call(loc, l) ==
    /\ result' = [call |-> "relative", loc |-> loc, label |-> l,
                  val |-> relative(loc, l)]
    /\ UNCHANGED labelVars
    /\ UNCHANGED codeVars

\* Label::from(string), called by a driver (x86.rs 18-22)
Label_from_call(string) ==
    /\ result' = [call |-> "from", string |-> string,
                  val |-> Label_from(string)]
    /\ UNCHANGED labelVars
    /\ UNCHANGED codeVars

(***************************************************************************)
(* BinOp and its Display (past.rs 33-62)                                   *)
(***************************************************************************)
\* pub enum BinOp
BinOp == {"Add", "Mul", "Div", "Sub", "Lt", "And", "Or", "Eq", "Eqb", "Eqi"}

\* A Display for BinOp that prints Or as two bars.
DisplayBinOp_orBars(op) ==
    CASE op = "Add" -> "+"
      [] op = "Mul" -> "*"
      [] op = "Div" -> "/"
      [] op = "Sub" -> "-"
      [] op = "Lt" -> "<"
      [] op = "And" -> "&&"
      [] op = "Or" -> "||"
      [] op = "Eq" -> "="
      [] op = "Eqb" -> "eqi"
      [] op = "Eqi" -> "eqb"

\* impl fmt::Display for BinOp
DisplayBinOp(op) ==
    CASE op = "Add" -> "+"
      [] op = "Mul" -> "*"
      [] op = "Div" -> "/"
      [] op = "Sub" -> "-"
      [] op = "Lt" -> "<"
      [] op = "And" -> "&&"
      [] op = "Or" -> "+"
      [] op = "Eq" -> "="
      [] op = "Eqb" -> "eqi"
      [] op = "Eqi" -> "eqb"

\* The operators written so far to the formatter a driver holds, and the
\* formatter's text.
Written == IF result.call = "fmt" THEN result.ops ELSE <<>>

Formatted == IF result.call = "fmt" THEN result.val ELSE ""

\* op.fmt(f): write!(f, ..) adds the operator's symbol to the formatter.
BinOp_fmt(op) ==
    /\ result' = [call |-> "fmt", ops |-> Append(Written, op),
                  val |-> Formatted \o DisplayBinOp(op)]
    /\ UNCHANGED labelVars
    /\ UNCHANGED codeVars

(***************************************************************************)
(* Code: the append operations (x86.rs 206-306)                            *)
(***************************************************************************)
\* Vec::push
VecPush(v, x) == Append(v, x)

\* Vec::insert(0, x)
VecInsert0(v, x) == <<x>> \o v

\* The methods' effect on self.asm.
label_(a, l) == VecPush(a, ILabel(l))

push(a, loc) == VecPush(a, IPush(loc))

pop(a, loc) == VecPush(a, IPop(loc))

\* A mov that stores its operands target first.
mov_swapped(a, source, target) == VecPush(a, IMov(target, source))

mov(a, source, target) == VecPush(a, IMov(source, target))

lea(a, source, target) == VecPush(a, ILea(source, target))

not(a, loc) == VecPush(a, INot(loc))

neg(a, loc) == VecPush(a, INeg(loc))

add(a, source, target) == VecPush(a, IAdd(source, target))

sub(a, source, target) == VecPush(a, ISub(source, target))

mul(a, source, target) == VecPush(a, IMul(source, target))

xor(a, source, target) == VecPush(a, IXor(source, target))

\* A cmp that stores a sub instruction.
cmp_asSub(a, source, target) == VecPush(a, ISub(source, target))

cmp(a, source, target) == VecPush(a, ICmp(source, target))

jmp(a, l) == VecPush(a, IJmp(l))

je(a, l) == VecPush(a, IJe(l))

jge(a, l) == VecPush(a, IJge(l))

jne(a, l) == VecPush(a, IJne(l))

call(a, name) == VecPush(a, ICall(name))

\* Methods that could still be called on a builder ret() has consumed.
Owned_always(b) == b \in DOMAIN phase

\* A method taking self by value can be called only by the owner of a live
\* builder: ret() moves the builder away, a panic unwinds its owner.
Owned(b) == phase[b] = "building"

\* The caller appends instruction i to builder b, which becomes a2.
Appends(b, i, a2) ==
    /\ Owned(b)
    /\ asm' = [asm EXCEPT ![b] = a2]
    /\ body' = [body EXCEPT ![b] = Append(@, i)]
    /\ UNCHANGED <<label, env, allocated, phase, text, nalloc, result>>
    /\ UNCHANGED labelVars

Code_label(b, l) == Appends(b, ILabel(l), label_(asm[b], l))

Code_push(b, loc) == Appends(b, IPush(loc), push(asm[b], loc))

Code_pop(b, loc) == Appends(b, IPop(loc), pop(asm[b], loc))

Code_mov(b, source, target) ==
    Appends(b, IMov(source, target), mov(asm[b], source, target))

Code_lea(b, source, target) ==
    Appends(b, ILea(source, target), lea(asm[b], source, target))

Code_not(b, loc) == Appends(b, INot(loc), not(asm[b], loc))

Code_neg(b, loc) == Appends(b, INeg(loc), neg(asm[b], loc))

Code_add(b, source, target) ==
    Appends(b, IAdd(source, target), add(asm[b], source, target))

Code_sub(b, source, target) ==
    Appends(b, ISub(source, target), sub(asm[b], source, target))

Code_mul(b, source, target) ==
    Appends(b, IMul(source, target), mul(asm[b], source, target))

Code_xor(b, source, target) ==
    Appends(b, IXor(source, target), xor(asm[b], source, target))

Code_cmp(b, source, target) ==
    Appends(b, ICmp(source, target), cmp(asm[b], source, target))

Code_jmp(b, l) == Appends(b, IJmp(l), jmp(asm[b], l))

Code_je(b, l) == Appends(b, IJe(l), je(asm[b], l))

Code_jge(b, l) == Appends(b, IJge(l), jge(asm[b], l))

Code_jne(b, l) == Appends(b, IJne(l), jne(asm[b], l))

Code_call(b, name) == Appends(b, ICall(name), call(asm[b], name))

(***************************************************************************)
(* Code: ret, allocate, get_env, get (x86.rs 308-349)                      *)
(***************************************************************************)
\* A ret() that pushes the prologue where it should insert it at index 0.
ret_asm_pushed(lbl, alloc, a) ==
    LET a1 == pop(mov(a, rbp, rsp), rbx)
        a2 == IF alloc > 0
              THEN VecPush(a1, ISub(constant(alloc), rsp))
              ELSE a1
        a3 == VecPush(a2, IMov(rsp, rbp))
        a4 == VecPush(a3, IPush(rbp))
        a5 == VecPush(a4, ILabel(lbl))
    IN  VecPush(a5, IRet)

\* A ret() that reserves the frame whatever its size.
ret_asm_alwaysReserve(lbl, alloc, a) ==
    LET a1 == pop(mov(a, rbp, rsp), rbx)
        a2 == VecInsert0(a1, ISub(constant(alloc), rsp))
        a3 == VecInsert0(a2, IMov(rsp, rbp))
        a4 == VecInsert0(a3, IPush(rbp))
        a5 == VecInsert0(a4, ILabel(lbl))
    IN  VecPush(a5, IRet)

\* self.asm as ret() leaves it, from the builder's entry label lbl, its
\* allocated-byte count alloc and its instructions a.
ret_asm(lbl, alloc, a) ==
    LET a1 == pop(mov(a, rbp, rsp), rbx)
        a2 == IF alloc > 0
              THEN VecInsert0(a1, ISub(constant(alloc), rsp))
              ELSE a1
        a3 == VecInsert0(a2, IMov(rsp, rbp))
        a4 == VecInsert0(a3, IPush(rbp))
        a5 == VecInsert0(a4, ILabel(lbl))
    IN  VecPush(a5, IRet)

\* A ret() that draws the entry label from the counter's current value.
Code_ret_counterLabel(b) ==
    /\ Owned(b)
    /\ asm' = [asm EXCEPT
                 ![b] = ret_asm(Generated(LABEL_COUNT), allocated[b], asm[b])]
    /\ text' = [text EXCEPT ![b] = DisplayCode(asm'[b])]
    /\ phase' = [phase EXCEPT ![b] = "finalized"]
    /\ UNCHANGED <<label, env, allocated, body, nalloc, result>>
    /\ UNCHANGED labelVars

\* A ret() that sets the label counter back to 0.
Code_ret_resetCounter(b) ==
    /\ Owned(b)
    /\ asm' = [asm EXCEPT ![b] = ret_asm(label[b], allocated[b], asm[b])]
    /\ text' = [text EXCEPT ![b] = DisplayCode(asm'[b])]
    /\ phase' = [phase EXCEPT ![b] = "finalized"]
    /\ LABEL_COUNT' = 0
    /\ UNCHANGED <<label, env, allocated, body, nalloc, result, ids>>

\* ret(mut self) -> GeneratedCode: the builder is moved into the call and the
\* text of its instructions is all that comes back.
Code_ret(b) ==
    /\ Owned(b)
    /\ asm' = [asm EXCEPT ![b] = ret_asm(label[b], allocated[b], asm[b])]
    /\ text' = [text EXCEPT ![b] = DisplayCode(asm'[b])]
    /\ phase' = [phase EXCEPT ![b] = "finalized"]
    /\ UNCHANGED <<label, env, allocated, body, nalloc, result>>
    /\ UNCHANGED labelVars

\* An allocate that computes the location before it adds the 8 bytes.
Code_allocate_stale(b, v) ==
    /\ Owned(b)
    /\ LET loc == deref(rbp, -allocated[b])
       IN  /\ allocated' = [allocated EXCEPT ![b] = @ + 8]
           /\ env' = [env EXCEPT ![b] = VecPush(@, <<v, loc>>)]
           /\ result' = [call |-> "allocate", builder |-> b, v |-> v,
                         val |-> loc]
    /\ nalloc' = [nalloc EXCEPT ![b] = @ + 1]
    /\ UNCHANGED <<label, asm, phase, text, body>>
    /\ UNCHANGED labelVars

\* An allocate that rewrites the binding of a name already bound where it is.
Code_allocate_rebind(b, v) ==
    /\ Owned(b)
    /\ LET a == allocated[b] + 8
           loc == deref(rbp, -a)
           bound == {i \in 1..Len(env[b]) : env[b][i][1] = v}
       IN  /\ allocated' = [allocated EXCEPT ![b] = a]
           /\ env' = [env EXCEPT
                        ![b] = IF bound = {}
                               THEN VecPush(@, <<v, loc>>)
                               ELSE [i \in 1..Len(@) |->
                                        IF i \in bound
                                        THEN <<v, loc>>
                                        ELSE @[i]]]
           /\ result' = [call |-> "allocate", builder |-> b, v |-> v,
                         val |-> loc]
    /\ nalloc' = [nalloc EXCEPT ![b] = @ + 1]
    /\ UNCHANGED <<label, asm, phase, text, body>>
    /\ UNCHANGED labelVars

\* allocate(&mut self, v: String) -> Location
Code_allocate(b, v) ==
    /\ Owned(b)
    /\ LET a == allocated[b] + 8
           loc == deref(rbp, -a)
       IN  /\ allocated' = [allocated EXCEPT ![b] = a]
           /\ env' = [env EXCEPT ![b] = VecPush(@, <<v, loc>>)]
           /\ result' = [call |-> "allocate", builder |-> b, v |-> v,
                         val |-> loc]
    /\ nalloc' = [nalloc EXCEPT ![b] = @ + 1]
    /\ UNCHANGED <<label, asm, phase, text, body>>
    /\ UNCHANGED labelVars

\* get_env(&self) -> &Vec<(String, Location)>
Code_get_env(b) ==
    /\ Owned(b)
    /\ result' = [call |-> "get_env", builder |-> b, val |-> env[b]]
    /\ UNCHANGED codeVars
    /\ UNCHANGED labelVars

\* A get that scans the bindings oldest first.
RECURSIVE get_oldestFirst(_, _)
get_oldestFirst(e, v) ==
    IF e = <<>>
    THEN Panic("Attempted to get unbound variable")
    ELSE IF v = e[1][1]
         THEN e[1][2]
         ELSE get_oldestFirst(Tail(e), v)

\* A get that falls back to the newest binding when none has the name.
get_orNewest(e, v) ==
    IF e = <<>>
    THEN Panic("Attempted to get unbound variable")
    ELSE IF \E i \in 1..Len(e) : e[i][1] = v
         THEN e[CHOOSE i \in 1..Len(e) :
                    /\ e[i][1] = v
                    /\ \A j \in (i + 1)..Len(e) : e[j][1] # v][2]
         ELSE e[Len(e)][2]

\* The loop of get over the bindings e, newest first.
RECURSIVE get(_, _)
get(e, v) ==
    IF e = <<>>
    THEN Panic("Attempted to get unbound variable")
    ELSE IF v = e[Len(e)][1]
         THEN e[Len(e)][2]
         ELSE get(SubSeq(e, 1, Len(e) - 1), v)

\* get(&self, v: String) -> Location; its panic unwinds the builder's owner.
Code_get(b, v) ==
    /\ Owned(b)
    /\ LET r == get(env[b], v)
       IN  /\ result' = [call |-> "get", builder |-> b, v |-> v, val |-> r]
           /\ phase' = [phase EXCEPT
                          ![b] = IF r.tag = "Panic" THEN "panicked" ELSE @]
    /\ UNCHANGED <<label, env, allocated, asm, text, body, nalloc>>
    /\ UNCHANGED labelVars

(***************************************************************************)
(* The inputs the specifications draw from.                                *)
(***************************************************************************)
\* Entry labels of Code::new.
EntryLabels == {Label_from("main"), Generated(0)}

\* Labels passed to label, jmp, je, jge and jne.
LabelArgs == {Generated(1)}

\* Names passed to call.
CallArgs == {"print"}

\* Variable names passed to allocate and get.
Names == {"x", "y"}

\* The names the driver of Spec binds, in this order: x, y, then both again,
\* shadowing the first two.
Locals == <<"x", "y", "x", "y">>

NextLocal(b) == Locals[(nalloc[b] % Len(Locals)) + 1]

\* The name the driver of SpecDet binds in builder b: one name per builder.
LocalOf(b) == IF b = "B1" THEN "x" ELSE "y"

\* Operands of push, pop, not and neg: an immediate.
UnaryArgs == {constant(5)}

\* The locations the first two allocate calls of builder b returned.
FirstSlots(b) ==
    IF Len(env[b]) >= 2 THEN {<<env[b][1][2], env[b][2][2]>>} ELSE {}

\* (source, target) operands of the binary operations: an immediate and the
\* stack pointer, and the builder's first two stack slots.
BinaryArgs(b) == {<<constant(8), rsp>>} \cup FirstSlots(b)

\* The bounds on what a caller does to builder b.
MayAppend(b) == Len(body[b]) < MaxAsm

MayAllocate(b) == nalloc[b] < MaxAlloc

(***************************************************************************)
(* Spec: one builder, from Code::new to ret.                               *)
(***************************************************************************)
InitCode(bs) ==
    /\ label \in [bs -> EntryLabels]
    /\ env = [b \in bs |-> <<>>]
    /\ allocated = [b \in bs |-> 0]
    /\ asm = [b \in bs |-> <<>>]
    /\ phase = [b \in bs |-> "building"]
    /\ text = [b \in bs |-> ""]
    /\ body = [b \in bs |-> <<>>]
    /\ nalloc = [b \in bs |-> 0]
    /\ result = NoResult

InitLabels(ts) ==
    /\ LABEL_COUNT = 0
    /\ ids = [t \in ts |-> <<>>]

Init == InitCode({"B1"}) /\ InitLabels({"T1"})

Next ==
    \/ \E b \in DOMAIN label, l \in LabelArgs :
            MayAppend(b) /\ Code_label(b, l)
    \/ \E b \in DOMAIN label, loc \in UnaryArgs :
            MayAppend(b) /\ Code_push(b, loc)
    \/ \E b \in DOMAIN label, loc \in UnaryArgs :
            MayAppend(b) /\ Code_pop(b, loc)
    \/ \E b \in DOMAIN label : \E st \in BinaryArgs(b) :
            MayAppend(b) /\ Code_mov(b, st[1], st[2])
    \/ \E b \in DOMAIN label : \E st \in BinaryArgs(b) :
            MayAppend(b) /\ Code_lea(b, st[1], st[2])
    \/ \E b \in DOMAIN label, loc \in UnaryArgs :
            MayAppend(b) /\ Code_not(b, loc)
    \/ \E b \in DOMAIN label, loc \in UnaryArgs :
            MayAppend(b) /\ Code_neg(b, loc)
    \/ \E b \in DOMAIN label : \E st \in BinaryArgs(b) :
            MayAppend(b) /\ Code_add(b, st[1], st[2])
    \/ \E b \in DOMAIN label : \E st \in BinaryArgs(b) :
            MayAppend(b) /\ Code_sub(b, st[1], st[2])
    \/ \E b \in DOMAIN label : \E st \in BinaryArgs(b) :
            MayAppend(b) /\ Code_mul(b, st[1], st[2])
    \/ \E b \in DOMAIN label : \E st \in BinaryArgs(b) :
            MayAppend(b) /\ Code_xor(b, st[1], st[2])
    \/ \E b \in DOMAIN label : \E st \in BinaryArgs(b) :
            MayAppend(b) /\ Code_cmp(b, st[1], st[2])
    \/ \E b \in DOMAIN label, l \in LabelArgs : MayAppend(b) /\ Code_jmp(b, l)
    \/ \E b \in DOMAIN label, l \in LabelArgs : MayAppend(b) /\ Code_je(b, l)
    \/ \E b \in DOMAIN label, l \in LabelArgs : MayAppend(b) /\ Code_jge(b, l)
    \/ \E b \in DOMAIN label, l \in LabelArgs : MayAppend(b) /\ Code_jne(b, l)
    \/ \E b \in DOMAIN label, name \in CallArgs :
            MayAppend(b) /\ Code_call(b, name)
    \/ \E b \in DOMAIN label :
            MayAllocate(b) /\ Code_allocate(b, NextLocal(b))
    \/ \E b \in DOMAIN label : Code_ret(b)

Spec == Init /\ [][Next]_vars

(***************************************************************************)
(* SpecEnv: one builder's environment: allocate, get and get_env, with     *)
(* appends in between.                                                     *)
(***************************************************************************)
\* Names passed to get: the names that allocate binds and one it never binds.
LookupNames == Names \cup {"z"}

NextEnv ==
    \/ \E b \in DOMAIN label, v \in Names :
            nalloc[b] < MaxEnv /\ Code_allocate(b, v)
    \/ \E b \in DOMAIN label, v \in LookupNames : Code_get(b, v)
    \/ \E b \in DOMAIN label : Code_get_env(b)
    \/ \E b \in DOMAIN label, loc \in UnaryArgs :
            MayAppend(b) /\ Code_push(b, loc)

SpecEnv == Init /\ [][NextEnv]_vars

(***************************************************************************)
(* SpecLabel: threads drawing labels from the counter while a builder uses *)
(* them and is finalised.                                                  *)
(***************************************************************************)
\* The labels Label::new() has handed out so far.
Handed == UNION {{ids[t][i] : i \in 1..Len(ids[t])} : t \in DOMAIN ids}

InitLabel == InitCode({"B1"}) /\ InitLabels(Threads)

NextLabel ==
    \/ \E t \in DOMAIN ids : Label_new(t)
    \/ \E b \in DOMAIN label, l \in Handed : MayAppend(b) /\ Code_label(b, l)
    \/ \E b \in DOMAIN label, l \in Handed : MayAppend(b) /\ Code_jmp(b, l)
    \/ \E b \in DOMAIN label : Code_ret(b)

SpecLabel == InitLabel /\ [][NextLabel]_vars

(***************************************************************************)
(* SpecAddr: a driver building addressing modes with deref and relative.   *)
(***************************************************************************)
\* Locations passed to deref and relative: every register and some of each
\* other variant.
AddrLocs ==
    {LocRegister(r) : r \in Register}
        \cup {constant(5), constant(0), constant(-1)}
        \cup {LocMemory("Rbp", -8), LocMemory("Rsp", 0)}
        \cup {LocRelative("Rip", Label_from("main")),
              LocRelative("Rip", Generated(0))}

\* Offsets passed to deref.
Offsets == {-16, -8, 0, 8}

InitAddr == InitCode({}) /\ InitLabels({})

NextAddr ==
    \/ \E loc \in AddrLocs, offset \in Offsets : deref_call(loc, offset)
    \/ \E loc \in AddrLocs, l \in EntryLabels : relative_call(loc, l)

SpecAddr == InitAddr /\ [][NextAddr]_vars

(***************************************************************************)
(* SpecDet: two builders built and finalised side by side while a thread   *)
(* draws labels from the counter.                                          *)
(***************************************************************************)
InitDet == InitCode(Builders) /\ InitLabels({"T1"})

NextDet ==
    \/ \E t \in DOMAIN ids : Label_new(t)
    \/ \E b \in DOMAIN label, loc \in UnaryArgs :
            MayAppend(b) /\ Code_push(b, loc)
    \/ \E b \in DOMAIN label, l \in LabelArgs : MayAppend(b) /\ Code_jmp(b, l)
    \/ \E b \in DOMAIN label : MayAllocate(b) /\ Code_allocate(b, LocalOf(b))
    \/ \E b \in DOMAIN label : Code_ret(b)

SpecDet == InitDet /\ [][NextDet]_vars

(***************************************************************************)
(* SpecCount: threads drawing labels from the counter while a driver names *)
(* labels with Label::from and builds and finalises a function.            *)
(***************************************************************************)
\* Names passed to Label::from.
GivenNames == {"main", "fact"}

NextCount ==
    \/ \E t \in DOMAIN ids : Label_new(t)
    \/ \E string \in GivenNames : Label_from_call(string)
    \/ \E b \in DOMAIN label, l \in Handed : MayAppend(b) /\ Code_jmp(b, l)
    \/ \E b \in DOMAIN label :
            MayAllocate(b) /\ Code_allocate(b, NextLocal(b))
    \/ \E b \in DOMAIN label : Code_ret(b)

SpecCount == InitLabel /\ [][NextCount]_vars

(***************************************************************************)
(* SpecBinOp: a driver displaying binary operators, one after another.     *)
(***************************************************************************)
InitBinOp == InitCode({}) /\ InitLabels({})

NextBinOp == \E op \in BinOp : Len(Written) < MaxOps /\ BinOp_fmt(op)

SpecBinOp == InitBinOp /\ [][NextBinOp]_vars

(***************************************************************************)
(* Properties                                                              *)
(***************************************************************************)
Finalized(b) == phase[b] = "finalized"

\* 1 when ret() owes builder b a reserve instruction, else 0.
Reserved(b) == IF nalloc[b] >= 1 THEN 1 ELSE 0

\* A stack reservation: an immediate subtracted from the stack pointer.
IsReserve(i) ==
    /\ i.op = "Sub"
    /\ i.source.tag = "Constant"
    /\ i.target = rsp

\* C1: the instructions ret() renders are the entry label, push of the base
\* pointer, base pointer set from the stack pointer, a reserve instruction
\* iff allocate was called, the appended instructions in the order of their
\* appending, two epilogue instructions and ret; with nothing appended and
\* nothing allocated that is the label and five instructions.
C1_Bracketing ==
    \A b \in DOMAIN label :
        Finalized(b) =>
            LET f == asm[b]
                r == Reserved(b)
                n == Len(body[b])
            IN  /\ Len(f) = 3 + r + n + 3
                /\ f[1] = ILabel(label[b])
                /\ f[2] = IPush(rbp)
                /\ f[3] = IMov(rsp, rbp)
                /\ (r = 1 => IsReserve(f[4]))
                /\ SubSeq(f, 4 + r, 3 + r + n) = body[b]
                /\ f[Len(f) - 2].op = "Mov"
                /\ f[Len(f) - 1].op = "Pop"
                /\ f[Len(f)] = IRet
                /\ text[b] = DisplayCode(f)
                /\ (n = 0 /\ r = 0 /\ label[b] = Label_from("main") =>
                        text[b] = "\nmain:\n\tpushq %rbp\n\tmovq %rsp,%rbp"
                                    \o DisplayInstruction(f[4])
                                    \o DisplayInstruction(f[5])
                                    \o "\n\tret")

\* Two different instructions appended, a slot allocated, then ret().
C1_Witness ==
    \E b \in DOMAIN label :
        /\ Finalized(b)
        /\ Len(body[b]) = 2
        /\ body[b][1] # body[b][2]
        /\ nalloc[b] >= 1

\* The positions of the reserve instructions among the instructions f.
ReservesIn(f) == {i \in 1..Len(f) : IsReserve(f[i])}

\* C2 as stated: the finalised instructions hold no reserve instruction when
\* allocate was never called, whatever was appended, and exactly one, of
\* 8*n bytes, right after the frame-setup pair, after n >= 1 allocate calls.
C2_AsStated ==
    \A b \in DOMAIN label :
        Finalized(b) =>
            LET f == asm[b]
            IN  /\ nalloc[b] = 0 => ReservesIn(f) = {}
                /\ nalloc[b] >= 1 =>
                        /\ ReservesIn(f) = {4}
                        /\ f[4] = ISub(constant(8 * nalloc[b]), rsp)
                        /\ f[2] = IPush(rbp)
                        /\ f[3] = IMov(rsp, rbp)

\* C2, amended: outside the instructions the caller appended, the finalised
\* instructions hold no reserve instruction when allocate was never called
\* and exactly one after n >= 1 allocate calls, of 8*n bytes, right after the
\* frame-setup pair and before the first appended instruction.
C2_PrologueConditional ==
    \A b \in DOMAIN label :
        Finalized(b) =>
            LET f == asm[b]
                r == Reserved(b)
                n == Len(body[b])
                appended == (4 + r)..(3 + r + n)
                synthesised == ReservesIn(f) \ appended
            IN  /\ SubSeq(f, 4 + r, 3 + r + n) = body[b]
                /\ nalloc[b] = 0 => synthesised = {}
                /\ nalloc[b] >= 1 =>
                        /\ synthesised = {4}
                        /\ f[4] = ISub(constant(8 * nalloc[b]), rsp)
                        /\ f[2] = IPush(rbp)
                        /\ f[3] = IMov(rsp, rbp)
                /\ text[b] = DisplayCode(f)

\* Two slots allocated, and the caller appended a reserve of its own.
C2_Witness ==
    \E b \in DOMAIN label :
        /\ Finalized(b)
        /\ nalloc[b] = 2
        /\ asm[b][4] = ISub(constant(16), rsp)
        /\ \E i \in 1..Len(body[b]) : IsReserve(body[b][i])

\* C3: the Generated labels Label::new() returned, to whichever threads in
\* whichever interleaving, are pairwise distinct.
C3_LabelsDistinct ==
    \A t1, t2 \in DOMAIN ids :
        \A i \in 1..Len(ids[t1]), j \in 1..Len(ids[t2]) :
            <<t1, i>> # <<t2, j>> => ids[t1][i] # ids[t2][j]

\* Two threads hold labels, one of them two.
C3_Witness ==
    /\ LabelCalls >= 3
    /\ \A t \in DOMAIN ids : Len(ids[t]) >= 1

\* C4: a builder leaves the building state only by ret(), which produces its
\* text; from then on nothing about the builder changes, its text included.
C4_NoAppendAfterFinalize ==
    [][\A b \in DOMAIN label :
          /\ phase[b] = "building" /\ phase'[b] # "building" =>
                /\ phase'[b] = "finalized"
                /\ text'[b] = DisplayCode(asm'[b])
                /\ text'[b] # ""
          /\ phase[b] = "building" => text[b] = ""
          /\ Finalized(b) =>
                /\ Finalized(b)'
                /\ text'[b] = text[b]
                /\ asm'[b] = asm[b]
                /\ env'[b] = env[b]
                /\ allocated'[b] = allocated[b]
                /\ label'[b] = label[b]
                /\ body'[b] = body[b]
                /\ nalloc'[b] = nalloc[b]]_vars

\* A builder with appended instructions and a slot has been finalised.
C4_Witness ==
    \E b \in DOMAIN label :
        /\ Finalized(b)
        /\ text[b] # ""
        /\ Len(body[b]) >= 1
        /\ nalloc[b] >= 1

\* C5: the k-th allocate call on a builder returns Memory(Rbp, -8*k).
C5_SlotSpacing ==
    result.call = "allocate" =>
        result.val = LocMemory("Rbp", -8 * nalloc[result.builder])

\* The second allocate, for the name y, on a builder with two instructions.
C5_Witness ==
    /\ result.call = "allocate"
    /\ result.v = "y"
    /\ nalloc[result.builder] = 2
    /\ Len(body[result.builder]) = 2
    /\ result.val = LocMemory("Rbp", -16)

\* Whether the bindings e hold one for the name v.
Binds(e, v) == \E i \in 1..Len(e) : e[i][1] = v

\* C6: get(name) returns the location of the newest binding of that name, and
\* a step that returns from get or get_env leaves the bindings, the
\* allocated-byte count and the instructions as they were; get_env returns
\* the bindings.
C6_Shadowing ==
    [][/\ result'.call = "get" /\ IsLocation(result'.val) =>
            LET e == env'[result'.builder]
            IN  \E i \in 1..Len(e) :
                    /\ e[i] = <<result'.v, result'.val>>
                    /\ \A j \in (i + 1)..Len(e) : e[j][1] # result'.v
       /\ result'.call = "get_env" => result'.val = env'[result'.builder]
       /\ result' # result /\ result'.call \in {"get", "get_env"} =>
            /\ env' = env
            /\ allocated' = allocated
            /\ asm' = asm]_vars

\* x bound, then y, then x again, an instruction appended, and get(x)
\* returned the third binding's location.
C6_Witness ==
    /\ result.call = "get"
    /\ result.v = "x"
    /\ env[result.builder] = <<<<"x", LocMemory("Rbp", -8)>>,
                               <<"y", LocMemory("Rbp", -16)>>,
                               <<"x", LocMemory("Rbp", -24)>>>>
    /\ result.val = LocMemory("Rbp", -24)
    /\ Len(asm[result.builder]) >= 1

\* C7: deref(loc, offset) and relative(loc, label) return Memory(reg, offset)
\* and Relative(reg, label) when loc is Register(reg), and panic, returning
\* no Location, for every other loc.
C7_BadBaseFatal ==
    /\ result.call = "deref" =>
            IF result.loc.tag = "Register"
            THEN result.val = LocMemory(result.loc.reg, result.offset)
            ELSE result.val.tag = "Panic" /\ ~IsLocation(result.val)
    /\ result.call = "relative" =>
            IF result.loc.tag = "Register"
            THEN result.val = LocRelative(result.loc.reg, result.label)
            ELSE result.val.tag = "Panic" /\ ~IsLocation(result.val)

\* deref(constant(5), 0) was called and panicked.
C7_Witness ==
    /\ result.call = "deref"
    /\ result.loc = constant(5)
    /\ result.offset = 0
    /\ result.val.tag = "Panic"

\* C8: get(name) on bindings that hold none for the name panics and returns
\* no Location, whatever else is bound; it returns a Location only for a
\* bound name; and nothing is done with the builder after the panic.
C8_UnboundFatal ==
    [][/\ result'.call = "get" =>
            LET b == result'.builder
                bound == Binds(env'[b], result'.v)
            IN  /\ ~bound => /\ result'.val.tag = "Panic"
                             /\ ~IsLocation(result'.val)
                             /\ phase'[b] = "panicked"
                /\ IsLocation(result'.val) => bound
       /\ \A b \in DOMAIN label :
            phase[b] = "panicked" =>
                /\ phase'[b] = "panicked"
                /\ env'[b] = env[b]
                /\ allocated'[b] = allocated[b]
                /\ asm'[b] = asm[b]
                /\ text'[b] = text[b]
                /\ result' = result]_vars

\* get(z) panicked on a builder that binds x and y but not z.
C8_Witness ==
    /\ result.call = "get"
    /\ result.v = "z"
    /\ result.val.tag = "Panic"
    /\ phase[result.builder] = "panicked"
    /\ Binds(env[result.builder], "x")
    /\ Binds(env[result.builder], "y")

\* The assembler mnemonic of each operation that takes Location operands.
Mnemonic(op) ==
    CASE op = "Push" -> "pushq"
      [] op = "Pop" -> "popq"
      [] op = "Not" -> "notq"
      [] op = "Neg" -> "negq"
      [] op = "Add" -> "addq"
      [] op = "Sub" -> "subq"
      [] op = "Mul" -> "imulq"
      [] op = "Xor" -> "xorq"
      [] op = "Cmp" -> "cmpq"
      [] op = "Mov" -> "movq"
      [] op = "Lea" -> "leaq"

\* The line an appended instruction is to print as: its operands as they
\* were passed, the source before the destination.
ExpectedLine(i) ==
    CASE i.op \in BinaryOps ->
            "\n\t" \o Mnemonic(i.op) \o " " \o DisplayLocation(i.source)
                \o "," \o DisplayLocation(i.target)
      [] i.op \in UnaryOps ->
            "\n\t" \o Mnemonic(i.op) \o " " \o DisplayLocation(i.loc)
      [] OTHER -> DisplayInstruction(i)

RECURSIVE ExpectedLines(_)
ExpectedLines(instrs) ==
    IF instrs = <<>>
    THEN ""
    ELSE ExpectedLine(Head(instrs)) \o ExpectedLines(Tail(instrs))

\* Operands no assembler accepts together or as a destination.
OddOperands == {constant(5), LocMemory("Rbp", -8)}

\* C9: every append operation is enabled for every operand combination, an
\* immediate as destination and two memory operands included, and each
\* appended instruction is printed with its operands unchanged, source
\* first; after allocate(x), allocate(y) and add(loc_x, loc_y) the add line
\* reads -8(%rbp),-16(%rbp).
C9_OperandsUnchecked ==
    \A b \in DOMAIN label :
        /\ Owned(b) =>
                \A s \in OddOperands, t \in OddOperands :
                    /\ ENABLED Code_mov(b, s, t)
                    /\ ENABLED Code_lea(b, s, t)
                    /\ ENABLED Code_add(b, s, t)
                    /\ ENABLED Code_sub(b, s, t)
                    /\ ENABLED Code_mul(b, s, t)
                    /\ ENABLED Code_xor(b, s, t)
                    /\ ENABLED Code_cmp(b, s, t)
                    /\ ENABLED Code_push(b, s)
                    /\ ENABLED Code_pop(b, s)
                    /\ ENABLED Code_not(b, s)
                    /\ ENABLED Code_neg(b, s)
        /\ Finalized(b) =>
                LET f == asm[b]
                    r == Reserved(b)
                    n == Len(body[b])
                IN  /\ SubSeq(f, 4 + r, 3 + r + n) = body[b]
                    /\ text[b] = DisplayCode(SubSeq(f, 1, 3 + r))
                                    \o ExpectedLines(body[b])
                                    \o DisplayCode(SubSeq(f, 4 + r + n, Len(f)))
                    /\ ( /\ label[b] = Label_from("main")
                         /\ nalloc[b] = 2
                         /\ body[b] = <<IAdd(LocMemory("Rbp", -8),
                                             LocMemory("Rbp", -16))>>
                         => text[b] = "\nmain:\n\tpushq %rbp"
                                        \o "\n\tmovq %rsp,%rbp"
                                        \o "\n\tsubq $16,%rsp"
                                        \o "\n\taddq -8(%rbp),-16(%rbp)"
                                        \o DisplayCode(SubSeq(f, 6, Len(f))) )

\* allocate(x), allocate(y), add(loc_x, loc_y), ret().
C9_Witness ==
    \E b \in DOMAIN label :
        /\ Finalized(b)
        /\ label[b] = Label_from("main")
        /\ env[b] = <<<<"x", LocMemory("Rbp", -8)>>,
                      <<"y", LocMemory("Rbp", -16)>>>>
        /\ body[b] = <<IAdd(LocMemory("Rbp", -8), LocMemory("Rbp", -16))>>

\* C10: two builders with the same entry label, the same number of allocate
\* calls and the same appended instructions produce the same text, whatever
\* the label counter was when each was finalised and whatever names each
\* bound.
C10_Deterministic ==
    \A b1, b2 \in DOMAIN label :
        /\ Finalized(b1)
        /\ Finalized(b2)
        /\ label[b1] = label[b2]
        /\ nalloc[b1] = nalloc[b2]
        /\ body[b1] = body[b2]
        => text[b1] = text[b2]

\* Two builders finalised after the same calls, labels drawn meanwhile.
C10_Witness ==
    \E b1, b2 \in DOMAIN label :
        /\ b1 # b2
        /\ Finalized(b1)
        /\ Finalized(b2)
        /\ label[b1] = label[b2]
        /\ nalloc[b1] = 2
        /\ nalloc[b2] = 2
        /\ env[b1] # env[b2]
        /\ Len(body[b1]) = 2
        /\ body[b1] = body[b2]
        /\ body[b1][1] # body[b1][2]
        /\ LABEL_COUNT >= 2

\* C11 as stated: the first epilogue instruction is a move from the stack
\* pointer to the base pointer, the second a pop.
C11_AsStated ==
    \A b \in DOMAIN label :
        Finalized(b) =>
            LET f == asm[b]
            IN  /\ f[Len(f) - 2] = IMov(rsp, rbp)
                /\ f[Len(f) - 1].op = "Pop"

\* C11, amended: the first epilogue instruction is a move whose source is the
\* base pointer and whose destination is the stack pointer, the second is a
\* pop into rbx; they are printed right before ret.
C11_Epilogue ==
    \A b \in DOMAIN label :
        Finalized(b) =>
            LET f == asm[b]
                r == Reserved(b)
                n == Len(body[b])
            IN  /\ Len(f) = 3 + r + n + 3
                /\ SubSeq(f, 4 + r, 3 + r + n) = body[b]
                /\ f[Len(f) - 2] = IMov(rbp, rsp)
                /\ f[Len(f) - 2].source = LocRegister("Rbp")
                /\ f[Len(f) - 2].target = LocRegister("Rsp")
                /\ f[Len(f) - 1] = IPop(rbx)
                /\ text[b] = DisplayCode(SubSeq(f, 1, Len(f) - 3))
                                \o "\n\tmovq %rbp,%rsp\n\tpopq %rbx\n\tret"

\* A builder finalised after an appended instruction that is no epilogue.
C11_Witness ==
    \E b \in DOMAIN label :
        /\ Finalized(b)
        /\ Len(body[b]) >= 1
        /\ body[b][Len(body[b])].op \notin {"Mov", "Pop"}
        /\ asm[b][Len(asm[b]) - 2].op = "Mov"

\* C12: in every finalised function the epilogue pops the register the
\* prologue pushed, the base pointer.
C12_Balanced ==
    \A b \in DOMAIN label :
        Finalized(b) =>
            LET f == asm[b]
            IN  /\ f[2] = IPush(rbp)
                /\ f[Len(f) - 1].op = "Pop"
                /\ f[Len(f) - 1].loc = f[2].loc

\* C13: a step in which the caller appends an instruction to a builder adds
\* exactly that instruction (the variant the operation names, the operands
\* passed) at the end of the builder's instructions and leaves the earlier
\* instructions, the entry label, the bindings and the allocated-byte count
\* as they were; a step in which the caller allocates changes the bindings
\* and the allocated-byte count and leaves the instructions and the entry
\* label as they were.
C13_Frame ==
    [][\A b \in DOMAIN label :
         /\ Len(body'[b]) = Len(body[b]) + 1 =>
                LET i == body'[b][Len(body'[b])]
                IN  /\ Len(asm'[b]) = Len(asm[b]) + 1
                    /\ asm'[b][Len(asm'[b])] = i
                    /\ SubSeq(asm'[b], 1, Len(asm[b])) = asm[b]
                    /\ label'[b] = label[b]
                    /\ env'[b] = env[b]
                    /\ allocated'[b] = allocated[b]
         /\ nalloc'[b] = nalloc[b] + 1 =>
                /\ asm'[b] = asm[b]
                /\ label'[b] = label[b]
                /\ Len(env'[b]) = Len(env[b]) + 1
                /\ allocated'[b] > allocated[b]]_vars

\* A builder still being built that holds a binding and two appended
\* instructions, the later one a cmp.
C13_Witness ==
    \E b \in DOMAIN label :
        /\ phase[b] = "building"
        /\ nalloc[b] >= 1
        /\ Len(body[b]) = 2
        /\ asm[b] = body[b]
        /\ body[b][2].op = "Cmp"
        /\ body[b][1].op # "Cmp"

\* The line instruction i stands for, without the newline before it: a bare
\* name and a colon for a label, else a tab, the mnemonic and the operands.
C14_Line(i) ==
    CASE i.op = "Label" -> DisplayLabel(i.label) \o ":"
      [] i.op \in BinaryOps ->
            "\t" \o Mnemonic(i.op) \o " " \o DisplayLocation(i.source)
                \o "," \o DisplayLocation(i.target)
      [] i.op \in UnaryOps ->
            "\t" \o Mnemonic(i.op) \o " " \o DisplayLocation(i.loc)
      [] i.op = "Jmp" -> "\tjmp " \o DisplayLabel(i.label)
      [] i.op = "Je" -> "\tje " \o DisplayLabel(i.label)
      [] i.op = "Jge" -> "\tjge " \o DisplayLabel(i.label)
      [] i.op = "Jne" -> "\tjne " \o DisplayLabel(i.label)
      [] i.op = "Call" -> "\tcall " \o i.name
      [] i.op = "Ret" -> "\tret"

\* The text whose lines, each begun by a newline, are ls.
RECURSIVE C14_Unlines(_)
C14_Unlines(ls) ==
    IF ls = <<>>
    THEN ""
    ELSE "\n" \o Head(ls) \o C14_Unlines(Tail(ls))

\* One line per instruction of f.
C14_Lines(f) == [k \in 1..Len(f) |-> C14_Line(f[k])]

\* One line per instruction of f and an empty line before the line of every
\* label that follows another instruction.
RECURSIVE C14_LinesSetOff(_, _)
C14_LinesSetOff(f, k) ==
    IF k > Len(f)
    THEN <<>>
    ELSE (IF f[k].op = "Label" /\ k > 1 THEN <<"">> ELSE <<>>)
            \o <<C14_Line(f[k])>> \o C14_LinesSetOff(f, k + 1)

C15_Constructors == {rax, rbx, rcx, rdx, rsp, rbp, rsi, rdi, r8, r9, rip}

\* Every register has exactly one constructor, which returns the Location
\* that wraps it, and what a constructor returns is a base deref accepts.
C15_OneConstructorEach ==
    /\ C15_Constructors = {LocRegister(r) : r \in Register}
    /\ Cardinality(C15_Constructors) = Cardinality(Register)
    /\ \A k \in C15_Constructors : k.tag = "Register" /\ k.reg \in Register
    /\ result.call = "deref" /\ result.loc \in C15_Constructors =>
            result.val = LocMemory(result.loc.reg, result.offset)

\* C15 as stated: the Register enumeration has exactly ten entries, one of
\* them the instruction pointer, and each has one constructor returning the
\* Location that wraps it.
C15_AsStated ==
    /\ Cardinality(Register) = 10
    /\ "Rip" \in Register
    /\ C15_OneConstructorEach

\* C15, amended: the Register enumeration has exactly eleven entries, the
\* ten registers rax, rbx, rcx, rdx, rsp, rbp, rsi, rdi, r8, r9 and the
\* instruction pointer rip, and each has one constructor returning the
\* Location that wraps it.
C15_ElevenRegisters ==
    /\ Cardinality(Register) = 11
    /\ Cardinality(Register \ {"Rip"}) = 10
    /\ "Rip" \in Register
    /\ C15_OneConstructorEach

\* deref was called on what rip() returns.
C15_Witness ==
    /\ result.call = "deref"
    /\ result.loc = rip
    /\ result.val.tag = "Memory"
    /\ result.val.reg = "Rip"

\* In builder b the allocated-byte count is 8 times the number of bindings
\* and no two bindings, same-named ones included, have the same location or
\* the same stack offset.
C16_Slots(b) ==
    /\ allocated[b] = 8 * Len(env[b])
    /\ \A i \in 1..Len(env[b]), j \in 1..Len(env[b]) :
            i # j =>
                /\ env[b][i][2] # env[b][j][2]
                /\ env[b][i][2].off # env[b][j][2].off

\* A step leaves the bindings of builder b as they were or adds one binding
\* after them.
C16_AppendOnly(b) ==
    \/ env'[b] = env[b]
    \/ /\ Len(env'[b]) = Len(env[b]) + 1
       /\ SubSeq(env'[b], 1, Len(env[b])) = env[b]

\* C16: in every reachable state of a builder, while it is built and after
\* a panic, the allocated-byte count is 8 times the number of bindings and
\* the bindings have pairwise distinct stack offsets, and every step only
\* adds bindings at the end, never removing, reordering or rewriting one.
C16_Environment ==
    /\ [](\A b \in DOMAIN label : C16_Slots(b))
    /\ [][\A b \in DOMAIN label : C16_AppendOnly(b)]_vars

\* Three bindings, the third shadowing the first.
C16_Witness ==
    \E b \in DOMAIN label :
        /\ Len(env[b]) = 3
        /\ env[b][1][1] = env[b][3][1]
        /\ env[b][1][1] # env[b][2][1]

\* The counter is the number of Label::new() calls made so far, the ids
\* handed out are 0 .. that number less one, and each thread's ids grow in
\* the order of its calls.
C17_Handed ==
    /\ LABEL_COUNT = LabelCalls
    /\ Handed = {Generated(k) : k \in 0..(LabelCalls - 1)}
    /\ \A t \in DOMAIN ids :
            \A i \in 1..Len(ids[t]), j \in 1..Len(ids[t]) :
                i < j => ids[t][i].id < ids[t][j].id

\* A step changes the counter only if it is a Label::new() call, which adds
\* exactly 1 and returns the value before; a step that is a Label::from, a
\* builder operation or a finalize leaves it as it was.
C17_Step ==
    /\ LABEL_COUNT' >= LABEL_COUNT
    /\ LABEL_COUNT' # LABEL_COUNT => LabelCalls' = LabelCalls + 1
    /\ LabelCalls' = LabelCalls + 1 =>
            /\ LABEL_COUNT' = LABEL_COUNT + 1
            /\ \E t \in DOMAIN ids :
                    ids'[t] = Append(ids[t], Generated(LABEL_COUNT))
    /\ LabelCalls' # LabelCalls => LabelCalls' = LabelCalls + 1
    /\ result' # result \/ codeVars' # codeVars =>
            LABEL_COUNT' = LABEL_COUNT

\* C17: the label counter starts at 0, only Label::new() changes it, by
\* exactly 1 a call and never downwards, so that after N calls the ids
\* handed out are exactly 0 .. N-1 and a thread's later call returns a
\* larger id than its earlier call.
C17_Monotone ==
    /\ LabelCalls = 0 => LABEL_COUNT = 0
    /\ []C17_Handed
    /\ [][C17_Step]_vars

\* Three Label::new() calls over two threads, a Label::from and a finalised
\* function that binds a variable and jumps to a handed-out label.
C17_Witness ==
    /\ LABEL_COUNT = 3
    /\ \E t \in DOMAIN ids : Len(ids[t]) = 2
    /\ result.call = "from"
    /\ \E b \in DOMAIN label :
            Finalized(b) /\ Len(body[b]) >= 1 /\ nalloc[b] >= 1

\* The operators the claim sets apart: Add and Or, Eqb and Eqi.
C18_Odd == {"Add", "Or", "Eqb", "Eqi"}

\* C18: Or is displayed with the symbol of Add, Eqb is displayed as eqi and
\* Eqi as eqb, and each other operator is displayed with a symbol no other
\* operator has; so a formatter that was written one operator holds + after
\* Add and after Or alike, eqi after Eqb and eqb after Eqi, and after two
\* operators holds the same text whichever of Add and Or each was.
C18_Symbols ==
    /\ DisplayBinOp("Or") = DisplayBinOp("Add")
    /\ DisplayBinOp("Eqb") = "eqi"
    /\ DisplayBinOp("Eqi") = "eqb"
    /\ \A o \in BinOp \ C18_Odd :
            \A p \in BinOp \ {o} : DisplayBinOp(o) # DisplayBinOp(p)
    /\ Len(Written) = 1 =>
            /\ Formatted = "+" <=> Written[1] \in {"Add", "Or"}
            /\ Formatted = "eqi" <=> Written[1] = "Eqb"
            /\ Formatted = "eqb" <=> Written[1] = "Eqi"
    /\ Len(Written) = 2 /\ Written[1] \in {"Add", "Or"}
            /\ Written[2] \in {"Add", "Or"} => Formatted = "++"

\* Or was displayed, then Eqb.
C18_Witness ==
    /\ result.call = "fmt"
    /\ result.ops = <<"Or", "Eqb">>
    /\ result.val = "+eqi"

====
